---------------------------- MODULE Spec2Model ----------------------------
(***************************************************************************)
(* Model of sync_roles.py: the daily Jamf roles sync.                      *)
(*                                                                         *)
(* A Python str is modelled as a sequence of one-character strings, so     *)
(* that substring tests, splitting, trimming, case conversion and          *)
(* code-point ordering are computed character by character, as the code    *)
(* does.  A parsed HTML page is a sequence of tables in document order; a  *)
(* table is the sequence of its <tr> rows; a row is a record of the raw    *)
(* texts of its <th> cells and of its <td> cells.  Tables are not nested.   *)
(***************************************************************************)
EXTENDS Integers, Sequences, FiniteSets, TLC

VARIABLES web, disk, now, pc, classic_html, prod_html, classic_rows, prod_rows,
          schema

vars == <<web, disk, now, pc, classic_html, prod_html, classic_rows, prod_rows,
          schema>>

-----------------------------------------------------------------------------
(* Characters and strings                                                  *)

\* U+00A0, the non-breaking space
NBSP == "nbsp"

\* The characters that Python's str.strip() and the regex class \s treat as
\* whitespace, among those the documents of the model use.
Whitespace == {" ", "\n", "\t", NBSP}

LowerChars ==
    <<"a", "b", "c", "d", "e", "f", "g", "h", "i", "j", "k", "l", "m",
      "n", "o", "p", "q", "r", "s", "t", "u", "v", "w", "x", "y", "z">>

UpperChars ==
    <<"A", "B", "C", "D", "E", "F", "G", "H", "I", "J", "K", "L", "M",
      "N", "O", "P", "Q", "R", "S", "T", "U", "V", "W", "X", "Y", "Z">>

\* The characters of the model in ascending code-point order.
CodePointOrder ==
    <<"\t", "\n", " ", ",", "-", "/", "0", "1", "2", "3", "4", "5", "6",
      "7", "8", "9">> \o UpperChars \o LowerChars \o <<NBSP>>

Range(f) == {f[i] : i \in DOMAIN f}

Ord == [c \in Range(CodePointOrder) |->
           CHOOSE i \in DOMAIN CodePointOrder : CodePointOrder[i] = c]

UpperOf == [c \in Range(CodePointOrder) |->
               IF \E i \in DOMAIN LowerChars : LowerChars[i] = c
               THEN UpperChars[CHOOSE i \in DOMAIN LowerChars : LowerChars[i] = c]
               ELSE c]

LowerOf == [c \in Range(CodePointOrder) |->
               IF \E i \in DOMAIN UpperChars : UpperChars[i] = c
               THEN LowerChars[CHOOSE i \in DOMAIN UpperChars : UpperChars[i] = c]
               ELSE c]

\* str.upper()
Upper(s) == [i \in 1..Len(s) |-> UpperOf[s[i]]]

\* str.lower()
Lower(s) == [i \in 1..Len(s) |-> LowerOf[s[i]]]

\* Python's "sub in s"
Contains(sub, s) ==
    \E i \in 0..(Len(s) - Len(sub)) : SubSeq(s, i + 1, i + Len(sub)) = sub

\* str.find(sub): the 0-based position of the first occurrence, -1 if none
Find(sub, s) ==
    IF Contains(sub, s)
    THEN CHOOSE i \in 0..(Len(s) - Len(sub)) :
             /\ SubSeq(s, i + 1, i + Len(sub)) = sub
             /\ \A j \in 0..(i - 1) : SubSeq(s, j + 1, j + Len(sub)) # sub
    ELSE -1

RECURSIVE LStrip(_)
LStrip(s) ==
    IF s # <<>> /\ Head(s) \in Whitespace THEN LStrip(Tail(s)) ELSE s

RECURSIVE RStrip(_)
RStrip(s) ==
    IF s # <<>> /\ s[Len(s)] \in Whitespace
    THEN RStrip(SubSeq(s, 1, Len(s) - 1))
    ELSE s

\* str.strip()
Strip(s) == RStrip(LStrip(s))

\* s.replace(U+00A0, " ")
ReplaceNbsp(s) == [i \in 1..Len(s) |-> IF s[i] = NBSP THEN " " ELSE s[i]]

\* re.sub(r"\s+", " ", s): every maximal run of whitespace becomes one space
RECURSIVE CollapseWhitespace(_)
CollapseWhitespace(s) ==
    IF s = <<>> THEN <<>>
    ELSE IF Head(s) \in Whitespace
         THEN <<" ">> \o CollapseWhitespace(LStrip(s))
         ELSE <<Head(s)>> \o CollapseWhitespace(Tail(s))

clean(s) == Strip(CollapseWhitespace(ReplaceNbsp(s)))

\* str.split(sep) for a non-empty separator: the pieces between occurrences
RECURSIVE Split(_, _)
Split(s, sep) ==
    LET i == Find(sep, s)
    IN  IF i < 0 THEN <<s>>
        ELSE <<SubSeq(s, 1, i)>> \o Split(SubSeq(s, i + Len(sep) + 1, Len(s)), sep)

\* str.split(sep, 1): at most one split, at the first occurrence
Split1(s, sep) ==
    LET i == Find(sep, s)
    IN  IF i < 0 THEN <<s>>
        ELSE <<SubSeq(s, 1, i), SubSeq(s, i + Len(sep) + 1, Len(s))>>

\* Python's str "<": lexicographic by code point, a proper prefix first
RECURSIVE StrLess(_, _)
StrLess(a, b) ==
    IF b = <<>> THEN FALSE
    ELSE IF a = <<>> THEN TRUE
    ELSE IF Head(a) = Head(b) THEN StrLess(Tail(a), Tail(b))
    ELSE Ord[Head(a)] < Ord[Head(b)]

\* sorted(S) for a set of strings
RECURSIVE sorted(_)
sorted(S) ==
    IF S = {} THEN <<>>
    ELSE LET m == CHOOSE x \in S : \A y \in S \ {x} : StrLess(x, y)
         IN  <<m>> \o sorted(S \ {m})

\* Python's None, as a value comparable with strings
None == <<"None">>

-----------------------------------------------------------------------------
(* Module constants of sync_roles.py                                       *)

CLASSIC_URL ==
    "https://developer.jamf.com/jamf-pro/docs/classic-api-minimum-required-privileges-and-endpoint-mapping"

PROD_URL == "https://developer.jamf.com/jamf-pro/docs/privileges-and-deprecations"

\* The fragments handed to find_best_table by parse_classic
ClassicRequired ==
    << <<"E", "n", "d", "p", "o", "i", "n", "t">>,
       <<"O", "p", "e", "r", "a", "t", "i", "o", "n">>,
       <<"R", "e", "q", "u", "i", "r", "e", "d", " ",
         "P", "r", "i", "v", "i", "l", "e", "g", "e">> >>

\* The fragments handed to find_best_table by parse_prod
ProdRequired ==
    << <<"E", "n", "d", "p", "o", "i", "n", "t">>,
       <<"O", "p", "e", "r", "a", "t", "i", "o", "n">>,
       <<"P", "r", "i", "v", "i", "l", "e", "g", "e", " ",
         "R", "e", "q", "u", "i", "r", "e", "m", "e", "n", "t", "s">>,
       <<"D", "e", "p", "r", "e", "c", "a", "t", "i", "o", "n", " ",
         "D", "a", "t", "e">> >>

\* The keys handed to idx_contains
KeyEndpoint == <<"e", "n", "d", "p", "o", "i", "n", "t">>
KeyOperation == <<"o", "p", "e", "r", "a", "t", "i", "o", "n">>
KeyRequired == <<"r", "e", "q", "u", "i", "r", "e", "d">>
KeyPrivilege == <<"p", "r", "i", "v", "i", "l", "e", "g", "e">>
KeyDeprecation == <<"d", "e", "p", "r", "e", "c", "a", "t", "i", "o", "n">>

\* "N/A", " - " and "Other"
NA == <<"N", "/", "A">>
Separator == <<" ", "-", " ">>
Other == <<"O", "t", "h", "e", "r">>

-----------------------------------------------------------------------------
(* find_best_table                                                         *)

\* headers = [clean(th.get_text()).lower() for th in ths]
HeaderLabels(ths) == [i \in 1..Len(ths) |-> Lower(clean(ths[i]))]

NotFound == [found |-> FALSE, headers |-> <<>>, table |-> <<>>, at |-> 0]

\* FindFrom with "any" for "all": a table qualifies as soon as one required
\* fragment is found among its headers
RECURSIVE FindFrom_AnyFragment(_, _, _)
FindFrom_AnyFragment(soup, required, k) ==
    IF k > Len(soup) THEN NotFound
    ELSE
      LET table == soup[k]
      IN  IF table = <<>> THEN FindFrom_AnyFragment(soup, required, k + 1)
          ELSE
            LET ths == table[1].th
                headers == HeaderLabels(ths)
                ok == \E r \in 1..Len(required) :
                          \E h \in 1..Len(headers) : Contains(required[r], headers[h])
            IN  IF ths = <<>> THEN FindFrom_AnyFragment(soup, required, k + 1)
                ELSE IF ok
                     THEN [found |-> TRUE, headers |-> headers, table |-> table, at |-> k]
                     ELSE FindFrom_AnyFragment(soup, required, k + 1)

\* The loop over soup.find_all("table"), from the k-th table on.  "at" is the
\* position of the returned table node in the document.
RECURSIVE FindFrom(_, _, _)
FindFrom(soup, required, k) ==
    IF k > Len(soup) THEN NotFound
    ELSE
      LET table == soup[k]
      IN  IF table = <<>> THEN FindFrom(soup, required, k + 1)
          ELSE
            LET ths == table[1].th
                headers == HeaderLabels(ths)
                ok == \A r \in 1..Len(required) :
                          \E h \in 1..Len(headers) : Contains(required[r], headers[h])
            IN  IF ths = <<>> THEN FindFrom(soup, required, k + 1)
                ELSE IF ok
                     THEN [found |-> TRUE, headers |-> headers, table |-> table, at |-> k]
                     ELSE FindFrom(soup, required, k + 1)

find_best_table(soup, required_headers) ==
    FindFrom(soup, [i \in 1..Len(required_headers) |-> Lower(required_headers[i])], 1)

-----------------------------------------------------------------------------
(* parse_classic and parse_prod                                            *)

\* idx_contains: the 0-based index of the first header containing the key
idx_contains(headers, key) ==
    IF \E i \in 1..Len(headers) : Contains(Lower(key), headers[i])
    THEN (CHOOSE i \in 1..Len(headers) :
              /\ Contains(Lower(key), headers[i])
              /\ \A j \in 1..(i - 1) : ~Contains(Lower(key), headers[j])) - 1
    ELSE -1

Min(S) == CHOOSE x \in S : \A y \in S : x <= y
Max(S) == CHOOSE x \in S : \A y \in S : x >= y

\* cells = [clean(td.get_text(" ", strip=True)) for td in tds]
Cells(tds) == [j \in 1..Len(tds) |-> clean(Strip(tds[j]))]

\* ClassicRowLoop with "break" for the first "continue": a row with too few
\* cells ends the extraction
RECURSIVE ClassicRowLoop_StopsAtShortRow(_, _, _, _)
ClassicRowLoop_StopsAtShortRow(trs, i_endpoint, i_operation, i_priv) ==
    IF trs = <<>> THEN <<>>
    ELSE
      LET tds == Head(trs).td
          cells == Cells(tds)
          rest == ClassicRowLoop_StopsAtShortRow(Tail(trs), i_endpoint, i_operation, i_priv)
      IN  IF tds = <<>> THEN rest
          ELSE IF Max({i_endpoint, i_operation, i_priv}) >= Len(cells) THEN <<>>
          ELSE
            LET endpoint == cells[i_endpoint + 1]
                operation == Upper(cells[i_operation + 1])
                privs == cells[i_priv + 1]
            IN  IF endpoint = <<>> \/ operation = <<>> THEN rest
                ELSE <<[endpoint |-> endpoint, operation |-> operation,
                        required_privileges |-> privs]>> \o rest

\* The loop over table.find_all("tr") of parse_classic
RECURSIVE ClassicRowLoop(_, _, _, _)
ClassicRowLoop(trs, i_endpoint, i_operation, i_priv) ==
    IF trs = <<>> THEN <<>>
    ELSE
      LET tds == Head(trs).td
          cells == Cells(tds)
          rest == ClassicRowLoop(Tail(trs), i_endpoint, i_operation, i_priv)
      IN  IF tds = <<>> THEN rest
          ELSE IF Max({i_endpoint, i_operation, i_priv}) >= Len(cells) THEN rest
          ELSE
            LET endpoint == cells[i_endpoint + 1]
                operation == Upper(cells[i_operation + 1])
                privs == cells[i_priv + 1]
            IN  IF endpoint = <<>> \/ operation = <<>> THEN rest
                ELSE <<[endpoint |-> endpoint, operation |-> operation,
                        required_privileges |-> privs]>> \o rest

\* The "seen" loop of parse_classic and parse_prod.  The key is the tuple of
\* all fields of the frozen dataclass, so key equality is record equality.
RECURSIVE DedupLoop(_, _, _)
DedupLoop(rows, seen, out) ==
    IF rows = <<>> THEN out
    ELSE LET r == Head(rows)
         IN  IF r \notin seen
             THEN DedupLoop(Tail(rows), seen \cup {r}, Append(out, r))
             ELSE DedupLoop(Tail(rows), seen, out)

Dedup(rows) == DedupLoop(rows, {}, <<>>)

Raise(message) == [ok |-> FALSE, error |-> message, rows |-> <<>>]

parse_classic(html) ==
    LET found == find_best_table(html, ClassicRequired)
        headers == found.headers
        i_endpoint == idx_contains(headers, KeyEndpoint)
        i_operation == idx_contains(headers, KeyOperation)
        i_priv == idx_contains(headers, KeyRequired)
    IN  IF ~found.found
        THEN Raise("Classic API table not found (page layout changed).")
        ELSE IF Min({i_endpoint, i_operation, i_priv}) < 0
        THEN Raise("Classic API table headers unexpected")
        ELSE [ok |-> TRUE, error |-> "",
              rows |-> Dedup(ClassicRowLoop(found.table, i_endpoint, i_operation, i_priv))]

\* The loop over table.find_all("tr") of parse_prod
RECURSIVE ProdRowLoop(_, _, _, _, _)
ProdRowLoop(trs, i_endpoint, i_operation, i_priv, i_depr) ==
    IF trs = <<>> THEN <<>>
    ELSE
      LET tds == Head(trs).td
          cells == Cells(tds)
          rest == ProdRowLoop(Tail(trs), i_endpoint, i_operation, i_priv, i_depr)
      IN  IF tds = <<>> THEN rest
          ELSE IF Max({i_endpoint, i_operation, i_priv, i_depr}) >= Len(cells) THEN rest
          ELSE
            LET endpoint == cells[i_endpoint + 1]
                operation == Upper(cells[i_operation + 1])
                privs == cells[i_priv + 1]
                depr == IF cells[i_depr + 1] # <<>> THEN cells[i_depr + 1] ELSE NA
            IN  IF endpoint = <<>> \/ operation = <<>> THEN rest
                ELSE <<[endpoint |-> endpoint, operation |-> operation,
                        privilege_requirements |-> privs,
                        deprecation_date |-> depr]>> \o rest

parse_prod(html) ==
    LET found == find_best_table(html, ProdRequired)
        headers == found.headers
        i_endpoint == idx_contains(headers, KeyEndpoint)
        i_operation == idx_contains(headers, KeyOperation)
        i_priv == idx_contains(headers, KeyPrivilege)
        i_depr == idx_contains(headers, KeyDeprecation)
    IN  IF ~found.found
        THEN Raise("Privileges and Deprecations table not found (page layout changed).")
        ELSE IF Min({i_endpoint, i_operation, i_priv, i_depr}) < 0
        THEN Raise("Prod API table headers unexpected")
        ELSE [ok |-> TRUE, error |-> "",
              rows |-> Dedup(ProdRowLoop(found.table, i_endpoint, i_operation,
                                         i_priv, i_depr))]

-----------------------------------------------------------------------------
(* build_schema                                                            *)

\* [p.strip() for p in s.split(",") if p.strip()]
SplitPrivileges(s) ==
    LET pieces == Split(s, <<",">>)
        NonEmpty(p) == p # <<>>
    IN  SelectSeq([i \in 1..Len(pieces) |-> Strip(pieces[i])], NonEmpty)

\* ClassicEndpoint without the deprecation_date entry
ClassicEndpoint_ThreeFields(r) ==
    [endpoint |-> r.endpoint,
     operation |-> r.operation,
     privileges |-> SplitPrivileges(r.required_privileges)]

ClassicEndpoint(r) ==
    [endpoint |-> r.endpoint,
     operation |-> r.operation,
     privileges |-> SplitPrivileges(r.required_privileges),
     deprecation_date |-> None]

\* NormalizeDeprecation without .upper(): only the spelling "N/A" becomes None
NormalizeDeprecation_CaseSensitive(d) ==
    LET deprecation == IF d # <<>> THEN Strip(d) ELSE NA
    IN  IF deprecation = NA THEN None ELSE deprecation

\* deprecation = r.deprecation_date.strip() if r.deprecation_date else "N/A"
\* if deprecation.upper() == "N/A": deprecation = None
NormalizeDeprecation(d) ==
    LET deprecation == IF d # <<>> THEN Strip(d) ELSE NA
    IN  IF Upper(deprecation) = NA THEN None ELSE deprecation

ProdEndpoint(r) ==
    [endpoint |-> r.endpoint,
     operation |-> r.operation,
     privileges |-> SplitPrivileges(r.privilege_requirements),
     deprecation_date |-> NormalizeDeprecation(r.deprecation_date)]

\* AllPrivs without all_privs.update(privs) in the loop over prod_rows
AllPrivs_ClassicOnly(classic_endpoints, prod_endpoints) ==
    UNION {Range(classic_endpoints[k].privileges) : k \in 1..Len(classic_endpoints)}

\* all_privs after both loops
AllPrivs(classic_endpoints, prod_endpoints) ==
    UNION {Range(classic_endpoints[k].privileges) : k \in 1..Len(classic_endpoints)}
    \cup
    UNION {Range(prod_endpoints[k].privileges) : k \in 1..Len(prod_endpoints)}

\* CategorizeOne without the test "resource not in categories[action]"
CategorizeOne_AlwaysAppends(categories, privilege) ==
    LET parts == Split1(privilege, Separator)
        action == IF Contains(Separator, privilege) THEN Strip(parts[1]) ELSE Other
        resource == IF Contains(Separator, privilege) THEN parts[2] ELSE privilege
        withKey == [a \in DOMAIN categories \cup {action} |->
                       IF a \in DOMAIN categories THEN categories[a] ELSE <<>>]
    IN  [withKey EXCEPT ![action] = Append(@, resource)]

\* One pass of the body of "for privilege in sorted(all_privs)"
CategorizeOne(categories, privilege) ==
    LET parts == Split1(privilege, Separator)
        action == IF Contains(Separator, privilege) THEN Strip(parts[1]) ELSE Other
        resource == IF Contains(Separator, privilege) THEN parts[2] ELSE privilege
        withKey == [a \in DOMAIN categories \cup {action} |->
                       IF a \in DOMAIN categories THEN categories[a] ELSE <<>>]
    IN  IF resource \notin Range(withKey[action])
        THEN [withKey EXCEPT ![action] = Append(@, resource)]
        ELSE withKey

RECURSIVE Categorize(_, _)
Categorize(privileges, categories) ==
    IF privileges = <<>> THEN categories
    ELSE Categorize(Tail(privileges), CategorizeOne(categories, Head(privileges)))

\* The empty dict
EmptyDict == [a \in {} |-> <<>>]

build_schema(rows_classic, rows_prod, timestamp) ==
    LET classic_endpoints == [k \in 1..Len(rows_classic) |-> ClassicEndpoint(rows_classic[k])]
        prod_endpoints == [k \in 1..Len(rows_prod) |-> ProdEndpoint(rows_prod[k])]
        all_privs == AllPrivs(classic_endpoints, prod_endpoints)
    IN  [version |-> "1.0.0",
         last_updated |-> timestamp,
         metadata |-> [description |-> "Jamf Pro API Role and Privilege Mappings",
                       source |-> "Jamf Developer Documentation",
                       documentation_urls |-> <<PROD_URL, CLASSIC_URL>>],
         privilege_categories |-> Categorize(sorted(all_privs), EmptyDict),
         all_privileges |-> sorted(all_privs),
         classic_api |->
             [description |-> "Classic API (XML-based) endpoints and required privileges",
              endpoints |-> classic_endpoints],
         jamf_pro_api |->
             [description |-> "Jamf Pro API (REST-based) endpoints and required privileges",
              endpoints |-> prod_endpoints]]

-----------------------------------------------------------------------------
(* The documents the two pages may hold                                    *)

\* Most tables on one page
MaxTables == 3

\* Most data rows in the table under extraction
MaxRows == 3

SeqsUpTo(S, n) == UNION {[1..k -> S] : k \in 0..n}

\* A <tr> of <th> cells and a <tr> of <td> cells
HeaderRow(texts) == [th |-> texts, td |-> <<>>]
DataRow(texts) == [th |-> <<>>, td |-> texts]

ClassicPlainHeader ==
    HeaderRow(<< <<"E", "n", "d", "p", "o", "i", "n", "t">>,
                 <<"O", "p", "e", "r", "a", "t", "i", "o", "n">>,
                 <<"R", "e", "q", "u", "i", "r", "e", "d", " ", "P", "r", "i", "v", "i", "l", "e", "g", "e", "s">> >>)

\* Three data rows in the Endpoint / Operation / Required Privileges layout
\* that extract to well-formed rows, and three that do not: one with exactly
\* as many cells as the largest column index, one whose endpoint is blank,
\* one with fewer cells than the largest column index.
\*   "/a" | "get"  | "Read - A, b"
\*   "/b" | "POST" | "Other - b, a"
\*   "/b" | "POST" | "Other - b,a"
\*   "/a" | "GET"
\*   U+00A0 | "GET" | "x"
\*   "/a"
ClassicDataRows ==
    { DataRow(<< <<"/", "a">>, <<"g", "e", "t">>, <<"R", "e", "a", "d", " ", "-", " ", "A", ",", " ", "b">> >>),
      DataRow(<< <<"/", "b">>, <<"P", "O", "S", "T">>, <<"O", "t", "h", "e", "r", " ", "-", " ", "b", ",", " ", "a">> >>),
      DataRow(<< <<"/", "b">>, <<"P", "O", "S", "T">>, <<"O", "t", "h", "e", "r", " ", "-", " ", "b", ",", "a">> >>),
      DataRow(<< <<"/", "a">>, <<"G", "E", "T">> >>),
      DataRow(<< <<NBSP>>, <<"G", "E", "T">>, <<"x">> >>),
      DataRow(<< <<"/", "a">> >>) }

\* Tables that differ in their header row: columns reordered with other
\* letter case and whitespace, two columns matching the same key, a proper
\* subset of the required headers, no <th> in the first row, no row at all.
\*   "Required<U+00A0><LF>Privilege" | "OPERATION" | "API Endpoint"
\*   "Endpoint" | "Operation" | "Required Role" | "Required Privilege"
\*   "Endpoint" | "Operation" | "Privilege"
\* each with one data row in its layout.
ClassicTables ==
    { << HeaderRow(<< <<"R", "e", "q", "u", "i", "r", "e", "d", NBSP, "\n", "P", "r", "i", "v", "i", "l", "e", "g", "e">>,
                      <<"O", "P", "E", "R", "A", "T", "I", "O", "N">>,
                      <<"A", "P", "I", " ", "E", "n", "d", "p", "o", "i", "n", "t">> >>),
         DataRow(<< <<"R", "e", "a", "d", " ", "-", " ", "R">>, <<"g", "e", "t">>, <<"/", "r">> >>) >>,
      << HeaderRow(<< <<"E", "n", "d", "p", "o", "i", "n", "t">>,
                      <<"O", "p", "e", "r", "a", "t", "i", "o", "n">>,
                      <<"R", "e", "q", "u", "i", "r", "e", "d", " ", "R", "o", "l", "e">>,
                      <<"R", "e", "q", "u", "i", "r", "e", "d", " ", "P", "r", "i", "v", "i", "l", "e", "g", "e">> >>),
         DataRow(<< <<"/", "m">>, <<"G", "E", "T">>, <<"A", "u", "d", "i", "t", "o", "r">>, <<"R", "e", "a", "d", " ", "-", " ", "M">> >>) >>,
      << HeaderRow(<< <<"E", "n", "d", "p", "o", "i", "n", "t">>,
                      <<"O", "p", "e", "r", "a", "t", "i", "o", "n">>,
                      <<"P", "r", "i", "v", "i", "l", "e", "g", "e">> >>),
         DataRow(<< <<"/", "s">>, <<"G", "E", "T">>, <<"R", "e", "a", "d", " ", "-", " ", "S">> >>) >>,
      << DataRow(<< <<"E", "n", "d", "p", "o", "i", "n", "t">>, <<"O", "p", "e", "r", "a", "t", "i", "o", "n">>, <<"R", "e", "q", "u", "i", "r", "e", "d", " ", "P", "r", "i", "v", "i", "l", "e", "g", "e">> >>) >>,
      << >> }

ClassicSample ==
    << << ClassicPlainHeader,
          DataRow(<< <<"/", "a">>, <<"g", "e", "t">>, <<"R", "e", "a", "d", " ", "-", " ", "A", ",", " ", "b">> >>),
          DataRow(<< <<"/", "b">>, <<"P", "O", "S", "T">>, <<"O", "t", "h", "e", "r", " ", "-", " ", "b", ",", " ", "a">> >>) >> >>

ClassicPages ==
    SeqsUpTo(ClassicTables, MaxTables)
    \cup {<< <<ClassicPlainHeader>> \o rows >> : rows \in SeqsUpTo(ClassicDataRows, MaxRows)}

ProdPlainHeader ==
    HeaderRow(<< <<"E", "n", "d", "p", "o", "i", "n", "t">>,
                 <<"O", "p", "e", "r", "a", "t", "i", "o", "n">>,
                 <<"P", "r", "i", "v", "i", "l", "e", "g", "e", " ", "R", "e", "q", "u", "i", "r", "e", "m", "e", "n", "t", "s">>,
                 <<"D", "e", "p", "r", "e", "c", "a", "t", "i", "o", "n", " ", "D", "a", "t", "e">> >>)

\* Data rows in the Endpoint / Operation / Privilege Requirements /
\* Deprecation Date layout: the deprecation cell "N/A", "n/a", blank and a
\* date; a blank operation; as many cells as the largest column index, and
\* fewer.
\*   "/a" | "get" | "Read - A" | "N/A"
\*   "/a" | "get" | "Read - A" | "n/a"
\*   "/p" | "PUT" | "FullAdmin, ,Read - B" | ""
\*   "/q" | "PUT" | "" | "iOS 18"
\*   "/p" | <LF> | "x" | "N/A"
\*   "/p" | "PUT" | "x"
\*   "/p"
ProdDataRows ==
    { DataRow(<< <<"/", "a">>, <<"g", "e", "t">>, <<"R", "e", "a", "d", " ", "-", " ", "A">>, <<"N", "/", "A">> >>),
      DataRow(<< <<"/", "a">>, <<"g", "e", "t">>, <<"R", "e", "a", "d", " ", "-", " ", "A">>, <<"n", "/", "a">> >>),
      DataRow(<< <<"/", "p">>, <<"P", "U", "T">>, <<"F", "u", "l", "l", "A", "d", "m", "i", "n", ",", " ", ",", "R", "e", "a", "d", " ", "-", " ", "B">>, <<>> >>),
      DataRow(<< <<"/", "q">>, <<"P", "U", "T">>, <<>>, <<"i", "O", "S", " ", "1", "8">> >>),
      DataRow(<< <<"/", "p">>, <<"\n">>, <<"x">>, <<"N", "/", "A">> >>),
      DataRow(<< <<"/", "p">>, <<"P", "U", "T">>, <<"x">> >>),
      DataRow(<< <<"/", "p">> >>) }

\* The header rows of the Pro page's tables, as those of ClassicTables:
\*   "Deprecation<TAB>Date" | "privilege requirements" | "Operation" | "Endpoint"
\*   "Endpoint" | "Operation" | "Privilege Set" | "Privilege Requirements"
\*       | "Deprecation Status" | "Deprecation Date"
\*   "Endpoint" | "Operation" | "Privilege Requirements"
ProdTables ==
    { << HeaderRow(<< <<"D", "e", "p", "r", "e", "c", "a", "t", "i", "o", "n", "\t", "D", "a", "t", "e">>,
                      <<"p", "r", "i", "v", "i", "l", "e", "g", "e", " ", "r", "e", "q", "u", "i", "r", "e", "m", "e", "n", "t", "s">>,
                      <<"O", "p", "e", "r", "a", "t", "i", "o", "n">>,
                      <<"E", "n", "d", "p", "o", "i", "n", "t">> >>),
         DataRow(<< <<"2", "0", "2", "5">>, <<"R", "e", "a", "d", " ", "-", " ", "R">>, <<"g", "e", "t">>, <<"/", "r">> >>) >>,
      << HeaderRow(<< <<"E", "n", "d", "p", "o", "i", "n", "t">>,
                      <<"O", "p", "e", "r", "a", "t", "i", "o", "n">>,
                      <<"P", "r", "i", "v", "i", "l", "e", "g", "e", " ", "S", "e", "t">>,
                      <<"P", "r", "i", "v", "i", "l", "e", "g", "e", " ", "R", "e", "q", "u", "i", "r", "e", "m", "e", "n", "t", "s">>,
                      <<"D", "e", "p", "r", "e", "c", "a", "t", "i", "o", "n", " ", "S", "t", "a", "t", "u", "s">>,
                      <<"D", "e", "p", "r", "e", "c", "a", "t", "i", "o", "n", " ", "D", "a", "t", "e">> >>),
         DataRow(<< <<"/", "m">>, <<"G", "E", "T">>, <<"B", "a", "s", "i", "c">>, <<"R", "e", "a", "d", " ", "-", " ", "M">>, <<"A", "c", "t", "i", "v", "e">>, <<"N", "/", "A">> >>) >>,
      << HeaderRow(<< <<"E", "n", "d", "p", "o", "i", "n", "t">>,
                      <<"O", "p", "e", "r", "a", "t", "i", "o", "n">>,
                      <<"P", "r", "i", "v", "i", "l", "e", "g", "e", " ", "R", "e", "q", "u", "i", "r", "e", "m", "e", "n", "t", "s">> >>),
         DataRow(<< <<"/", "s">>, <<"G", "E", "T">>, <<"R", "e", "a", "d", " ", "-", " ", "S">> >>) >>,
      << DataRow(<< <<"E", "n", "d", "p", "o", "i", "n", "t">>, <<"O", "p", "e", "r", "a", "t", "i", "o", "n">>, <<"P", "r", "i", "v", "i", "l", "e", "g", "e", " ", "R", "e", "q", "u", "i", "r", "e", "m", "e", "n", "t", "s">>,
                    <<"D", "e", "p", "r", "e", "c", "a", "t", "i", "o", "n", " ", "D", "a", "t", "e">> >>) >>,
      << >> }

ProdSample ==
    << << ProdPlainHeader,
          DataRow(<< <<"/", "a">>, <<"g", "e", "t">>, <<"R", "e", "a", "d", " ", "-", " ", "A">>, <<"N", "/", "A">> >>),
          DataRow(<< <<"/", "p">>, <<"P", "U", "T">>, <<"F", "u", "l", "l", "A", "d", "m", "i", "n", ",", " ", ",", "R", "e", "a", "d", " ", "-", " ", "B">>, <<>> >>) >> >>

ProdPages ==
    SeqsUpTo(ProdTables, MaxTables)
    \cup {<< <<ProdPlainHeader>> \o rows >> : rows \in SeqsUpTo(ProdDataRows, MaxRows)}

\* What requests.get answers: a page, or a status raise_for_status rejects
Ok(page) == [status_code |-> 200, text |-> page]
Unavailable == [status_code |-> 503, text |-> <<>>]

\* The two pages as served during one run.  One page varies over its whole
\* catalogue while the other is the sample page or unavailable.
Webs ==
    {[u \in {CLASSIC_URL, PROD_URL} |-> IF u = CLASSIC_URL THEN c ELSE p] :
        c \in {Ok(page) : page \in ClassicPages}, p \in {Ok(ProdSample), Unavailable}}
    \cup
    {[u \in {CLASSIC_URL, PROD_URL} |-> IF u = CLASSIC_URL THEN c ELSE p] :
        c \in {Ok(ClassicSample), Unavailable}, p \in {Ok(page) : page \in ProdPages}}

-----------------------------------------------------------------------------
(* main                                                                    *)

FileNames ==
    {"jamf-roles.json", "classic-api-roles.json", "jamf-pro-api-roles.json",
     "privilege-categories.json"}

\* A file of roles/ that does not exist, one left by an earlier run, and one
\* written by write_text(json.dumps(doc, ...)) in this run
Absent == [exists |-> FALSE]
Stale == [exists |-> TRUE, doc |-> [version |-> "1.0.0", last_updated |-> -1]]
Written(doc) == [exists |-> TRUE, doc |-> doc]

\* fetch_html: r.raise_for_status() raises for a 4xx or 5xx answer
fetch_html(url) ==
    LET r == web[url]
    IN  IF r.status_code >= 400
        THEN [ok |-> FALSE, text |-> <<>>]
        ELSE [ok |-> TRUE, text |-> r.text]

Init ==
    /\ web \in Webs
    /\ disk \in {[dirs |-> {}, files |-> [f \in FileNames |-> prior]] :
                    prior \in {Absent, Stale}}
    /\ now = 0
    /\ pc = "mkdir"
    /\ classic_html = <<>>
    /\ prod_html = <<>>
    /\ classic_rows = <<>>
    /\ prod_rows = <<>>
    /\ schema = <<>>

\* ROLES_DIR.mkdir(...); DOCS_DIR.mkdir(...)
Mkdir ==
    /\ pc = "mkdir"
    /\ disk' = [disk EXCEPT !.dirs = @ \cup {"roles", "docs"}]
    /\ pc' = "fetch_classic"
    /\ now' = now + 1
    /\ UNCHANGED <<web, classic_html, prod_html, classic_rows, prod_rows, schema>>

\* classic_html = fetch_html(CLASSIC_URL)
FetchClassic ==
    /\ pc = "fetch_classic"
    /\ LET got == fetch_html(CLASSIC_URL)
       IN  /\ classic_html' = got.text
           /\ pc' = IF got.ok THEN "fetch_prod" ELSE "failed"
    /\ now' = now + 1
    /\ UNCHANGED <<web, disk, prod_html, classic_rows, prod_rows, schema>>

\* prod_html = fetch_html(PROD_URL)
FetchProd ==
    /\ pc = "fetch_prod"
    /\ LET got == fetch_html(PROD_URL)
       IN  /\ prod_html' = got.text
           /\ pc' = IF got.ok THEN "parse_classic" ELSE "failed"
    /\ now' = now + 1
    /\ UNCHANGED <<web, disk, classic_html, classic_rows, prod_rows, schema>>

\* ParseClassic followed at once by the write of classic-api-roles.json,
\* before the Pro page is parsed
ParseClassic_WritesEarly ==
    /\ pc = "parse_classic"
    /\ LET got == parse_classic(classic_html)
       IN  /\ classic_rows' = got.rows
           /\ pc' = IF got.ok THEN "parse_prod" ELSE "failed"
           /\ disk' = IF got.ok
                      THEN [disk EXCEPT !.files["classic-api-roles.json"] =
                                Written([version |-> "1.0.0", last_updated |-> now,
                                         endpoints |-> got.rows])]
                      ELSE disk
    /\ now' = now + 1
    /\ UNCHANGED <<web, classic_html, prod_html, prod_rows, schema>>

\* classic_rows = parse_classic(classic_html)
ParseClassic ==
    /\ pc = "parse_classic"
    /\ LET got == parse_classic(classic_html)
       IN  /\ classic_rows' = got.rows
           /\ pc' = IF got.ok THEN "parse_prod" ELSE "failed"
    /\ now' = now + 1
    /\ UNCHANGED <<web, disk, classic_html, prod_html, prod_rows, schema>>

\* prod_rows = parse_prod(prod_html)
ParseProd ==
    /\ pc = "parse_prod"
    /\ LET got == parse_prod(prod_html)
       IN  /\ prod_rows' = got.rows
           /\ pc' = IF got.ok THEN "build_schema" ELSE "failed"
    /\ now' = now + 1
    /\ UNCHANGED <<web, disk, classic_html, prod_html, classic_rows, schema>>

\* schema = build_schema(classic_rows, prod_rows)
BuildSchema ==
    /\ pc = "build_schema"
    /\ schema' = build_schema(classic_rows, prod_rows, now)
    /\ pc' = "write_schema"
    /\ now' = now + 1
    /\ UNCHANGED <<web, disk, classic_html, prod_html, classic_rows, prod_rows>>

\* classic_only with the endpoints of the other source
classic_only_ProEndpoints ==
    [version |-> schema.version,
     last_updated |-> schema.last_updated,
     endpoints |-> schema.jamf_pro_api.endpoints]

classic_only ==
    [version |-> schema.version,
     last_updated |-> schema.last_updated,
     endpoints |-> schema.classic_api.endpoints]

prod_only ==
    [version |-> schema.version,
     last_updated |-> schema.last_updated,
     endpoints |-> schema.jamf_pro_api.endpoints]

priv_cats ==
    [version |-> schema.version,
     categories |-> schema.privilege_categories,
     all_privileges |-> schema.all_privileges]

\* (ROLES_DIR / name).write_text(json.dumps(doc, ...)), then on to "next"
WriteText(at, name, doc, next) ==
    /\ pc = at
    /\ disk' = [disk EXCEPT !.files[name] = Written(doc)]
    /\ pc' = next
    /\ now' = now + 1
    /\ UNCHANGED <<web, classic_html, prod_html, classic_rows, prod_rows, schema>>

WriteSchema == WriteText("write_schema", "jamf-roles.json", schema, "write_classic")

WriteClassicOnly ==
    WriteText("write_classic", "classic-api-roles.json", classic_only, "write_prod")

WriteProdOnly ==
    WriteText("write_prod", "jamf-pro-api-roles.json", prod_only, "write_cats")

WritePrivCats ==
    WriteText("write_cats", "privilege-categories.json", priv_cats, "done")

Next ==
    \/ Mkdir
    \/ FetchClassic
    \/ FetchProd
    \/ ParseClassic
    \/ ParseProd
    \/ BuildSchema
    \/ WriteSchema
    \/ WriteClassicOnly
    \/ WriteProdOnly
    \/ WritePrivCats

Spec == Init /\ [][Next]_vars

-----------------------------------------------------------------------------
(* Properties                                                              *)

FetchSucceeds(url) == web[url].status_code < 400

\* Both fetches and both extractions succeed on the pages served
BothExtracted ==
    /\ FetchSucceeds(CLASSIC_URL)
    /\ FetchSucceeds(PROD_URL)
    /\ parse_classic(web[CLASSIC_URL].text).ok
    /\ parse_prod(web[PROD_URL].text).ok

\* Every output file is as the run found it
Untouched ==
    \E prior \in {Absent, Stale} : \A f \in FileNames : disk.files[f] = prior

\* C1: a run is all-or-nothing with respect to its output files.  A file
\* differs from what the run found only once both fetches and both
\* extractions have succeeded and the run has passed build_schema; a run whose
\* fetch or extraction fails never reaches build_schema or a write, and ends
\* in failure with all four files as it found them.
C1_AllOrNothing ==
    /\ ~Untouched =>
          /\ BothExtracted
          /\ pc \in {"write_classic", "write_prod", "write_cats", "done"}
    /\ ~BothExtracted =>
          pc \in {"mkdir", "fetch_classic", "fetch_prod", "parse_classic",
                  "parse_prod", "failed"}
    /\ pc = "failed" => Untouched /\ ~BothExtracted

\* The classic extraction succeeded with rows in hand, the Pro page was
\* fetched but holds no qualifying table, and the run has failed
C1_Witness ==
    /\ pc = "failed"
    /\ classic_rows # <<>>
    /\ FetchSucceeds(PROD_URL)
    /\ ~parse_prod(prod_html).ok
    /\ Len(prod_html) > 0

Distinct(seq) == \A i, j \in 1..Len(seq) : i < j => seq[i] # seq[j]

EndpointKey(e) == <<e.endpoint, e.operation, e.privileges>>
ProEndpointKey(e) == <<e.endpoint, e.operation, e.privileges, e.deprecation_date>>

\* C2: no two entries of classic_api.endpoints agree on (endpoint, operation,
\* privileges list) and no two entries of jamf_pro_api.endpoints agree on
\* (endpoint, operation, privileges list, deprecation_date).
C2_EndpointsPairwiseDistinct ==
    pc = "write_schema" =>
        /\ Distinct([k \in 1..Len(schema.classic_api.endpoints) |->
                        EndpointKey(schema.classic_api.endpoints[k])])
        /\ Distinct([k \in 1..Len(schema.jamf_pro_api.endpoints) |->
                        ProEndpointKey(schema.jamf_pro_api.endpoints[k])])

\* The table a parser extracts from, with the resolved column indices
ClassicLayout(html) ==
    LET found == find_best_table(html, ClassicRequired)
    IN  [table |-> found.table,
         i_endpoint |-> idx_contains(found.headers, KeyEndpoint),
         i_operation |-> idx_contains(found.headers, KeyOperation),
         i_priv |-> idx_contains(found.headers, KeyRequired),
         i_depr |-> 0]

ProdLayout(html) ==
    LET found == find_best_table(html, ProdRequired)
    IN  [table |-> found.table,
         i_endpoint |-> idx_contains(found.headers, KeyEndpoint),
         i_operation |-> idx_contains(found.headers, KeyOperation),
         i_priv |-> idx_contains(found.headers, KeyPrivilege),
         i_depr |-> idx_contains(found.headers, KeyDeprecation)]

MaxIndex(lay) == Max({lay.i_endpoint, lay.i_operation, lay.i_priv, lay.i_depr})

\* The positions of the data rows (rows with at least one <td>) of the table
DataRowsOf(lay) == {k \in 1..Len(lay.table) : lay.table[k].td # <<>>}

\* The normalized text of cell i (0-based) of row k; blank when there is none
TextAt(lay, k, i) ==
    LET cells == Cells(lay.table[k].td)
    IN  IF i < Len(cells) THEN cells[i + 1] ELSE <<>>

\* Row k has a cell at every resolved index and a non-blank endpoint and operation
WellFormed(lay, k) ==
    /\ Len(lay.table[k].td) > MaxIndex(lay)
    /\ TextAt(lay, k, lay.i_endpoint) # <<>>
    /\ TextAt(lay, k, lay.i_operation) # <<>>

\* What the claim calls malformed: fewer cells than the largest resolved
\* index, or a blank endpoint or operation
MalformedAsClaimed(lay, k) ==
    \/ Len(lay.table[k].td) < MaxIndex(lay)
    \/ TextAt(lay, k, lay.i_endpoint) = <<>>
    \/ TextAt(lay, k, lay.i_operation) = <<>>

ClassicRowOf(lay, k) ==
    [endpoint |-> TextAt(lay, k, lay.i_endpoint),
     operation |-> Upper(TextAt(lay, k, lay.i_operation)),
     required_privileges |-> TextAt(lay, k, lay.i_priv)]

ProdRowOf(lay, k) ==
    [endpoint |-> TextAt(lay, k, lay.i_endpoint),
     operation |-> Upper(TextAt(lay, k, lay.i_operation)),
     privilege_requirements |-> TextAt(lay, k, lay.i_priv),
     deprecation_date |->
         IF TextAt(lay, k, lay.i_depr) = <<>> THEN NA ELSE TextAt(lay, k, lay.i_depr)]

\* out holds exactly the rows of the data rows in "kept", each once, in the
\* order of their first occurrences in the table
FirstOccurrences(out, kept, RowOf(_)) ==
    LET first(r) == Min({k \in kept : RowOf(k) = r})
    IN  /\ \A k \in kept : \E n \in 1..Len(out) : out[n] = RowOf(k)
        /\ \A n \in 1..Len(out) : \E k \in kept : out[n] = RowOf(k)
        /\ \A m, n \in 1..Len(out) : m < n => first(out[m]) < first(out[n])

\* C3 as amended: in parse_classic and parse_prod a data row with no more
\* cells than the largest resolved column index, or with a blank endpoint or
\* operation, is left out; every other data row is in the result, and the
\* result lists the distinct extracted rows in the order of their first
\* occurrences.
C3_MalformedRowsSkipped ==
    /\ pc = "parse_prod" =>
          LET lay == ClassicLayout(classic_html)
              RowOf(k) == ClassicRowOf(lay, k)
          IN  FirstOccurrences(classic_rows,
                               {k \in DataRowsOf(lay) : WellFormed(lay, k)}, RowOf)
    /\ pc = "build_schema" =>
          LET lay == ProdLayout(prod_html)
              RowOf(k) == ProdRowOf(lay, k)
          IN  FirstOccurrences(prod_rows,
                               {k \in DataRowsOf(lay) : WellFormed(lay, k)}, RowOf)

\* parse_classic has run on a table whose data rows are a well-formed row, a
\* row with exactly as many cells as the largest resolved column index, and a
\* different well-formed row
C3_Witness ==
    /\ pc = "parse_prod"
    /\ LET lay == ClassicLayout(classic_html)
       IN  /\ Len(lay.table) = 4
           /\ WellFormed(lay, 2)
           /\ Len(lay.table[3].td) = MaxIndex(lay)
           /\ ~MalformedAsClaimed(lay, 3)
           /\ WellFormed(lay, 4)
           /\ ClassicRowOf(lay, 2) # ClassicRowOf(lay, 4)
           /\ classic_rows = <<ClassicRowOf(lay, 2), ClassicRowOf(lay, 4)>>

\* C3 as claimed: only a data row with fewer cells than the largest resolved
\* column index, or with a blank endpoint or operation, is left out; every
\* other data row is represented in the result with its endpoint, operation
\* and, where the row has that cell, its privileges text.
C3_OnlyShorterRowsSkipped ==
    pc = "parse_prod" =>
        LET lay == ClassicLayout(classic_html)
        IN  \A k \in DataRowsOf(lay) :
                ~MalformedAsClaimed(lay, k) =>
                    \E n \in 1..Len(classic_rows) :
                        /\ classic_rows[n].endpoint = TextAt(lay, k, lay.i_endpoint)
                        /\ classic_rows[n].operation = Upper(TextAt(lay, k, lay.i_operation))
                        /\ lay.i_priv < Len(lay.table[k].td) =>
                               classic_rows[n].required_privileges = TextAt(lay, k, lay.i_priv)

\* "N/A" in any letter case
IsNotApplicable(text) ==
    /\ Len(text) = 3
    /\ text[1] \in {"N", "n"}
    /\ text[2] = "/"
    /\ text[3] \in {"A", "a"}

\* The deprecation_date the claim assigns to a normalized cell text
ExpectedDeprecation(text) ==
    IF text = <<>> \/ IsNotApplicable(text) THEN None ELSE text

\* The endpoint record the claim expects for well-formed Pro data row k
ExpectedProRecord(lay, k) ==
    [endpoint |-> TextAt(lay, k, lay.i_endpoint),
     operation |-> Upper(TextAt(lay, k, lay.i_operation)),
     privileges |-> SplitPrivileges(TextAt(lay, k, lay.i_priv)),
     deprecation_date |-> ExpectedDeprecation(TextAt(lay, k, lay.i_depr))]

\* C4: for every Pro API row that is kept, the record's deprecation_date is
\* null exactly when the normalized cell text is blank or "N/A" in any letter
\* case, and is the cell text unchanged otherwise.
C4_DeprecationNormalized ==
    pc = "write_schema" =>
        LET lay == ProdLayout(prod_html)
            kept == {k \in DataRowsOf(lay) : WellFormed(lay, k)}
            endpoints == schema.jamf_pro_api.endpoints
        IN  /\ \A k \in kept :
                   \E n \in 1..Len(endpoints) : endpoints[n] = ExpectedProRecord(lay, k)
            /\ \A n \in 1..Len(endpoints) :
                   \E k \in kept : endpoints[n] = ExpectedProRecord(lay, k)

\* build_schema has run on Pro rows whose deprecation cells were "n/a", blank
\* and a date
C4_Witness ==
    /\ pc = "write_schema"
    /\ LET lay == ProdLayout(prod_html)
           kept == {k \in DataRowsOf(lay) : WellFormed(lay, k)}
       IN  /\ \E k \in kept : TextAt(lay, k, lay.i_depr) = <<"n", "/", "a">>
           /\ \E k \in kept : TextAt(lay, k, lay.i_depr) = <<>>
           /\ \E k \in kept : ExpectedDeprecation(TextAt(lay, k, lay.i_depr)) # None
    /\ \E n \in 1..Len(schema.jamf_pro_api.endpoints) :
           schema.jamf_pro_api.endpoints[n].deprecation_date = None
    /\ \E n \in 1..Len(schema.jamf_pro_api.endpoints) :
           schema.jamf_pro_api.endpoints[n].deprecation_date # None

\* Fragment "fragment" is covered by the header row of the table: compared
\* lower-cased, it is a substring of the label of some <th> of the first row
Covers(table, fragment) ==
    /\ table # <<>>
    /\ \E h \in 1..Len(table[1].th) :
           Contains(Lower(fragment), Lower(clean(table[1].th[h])))

Qualifies(table, required) ==
    /\ table # <<>>
    /\ table[1].th # <<>>
    /\ \A r \in 1..Len(required) : Covers(table, required[r])

\* find_best_table answers with the first qualifying table of the page and
\* its labels, and with not-found when no table qualifies
LocatesFirst(page, required) ==
    LET res == find_best_table(page, required)
        qualifying == {k \in 1..Len(page) : Qualifies(page[k], required)}
    IN  IF qualifying = {}
        THEN ~res.found
        ELSE /\ res.found
             /\ res.at = Min(qualifying)
             /\ res.table = page[res.at]
             /\ res.headers = [h \in 1..Len(page[res.at][1].th) |->
                                  Lower(clean(page[res.at][1].th[h]))]

\* C5: find_best_table returns the first table in document order whose header
\* row covers every required fragment, whatever the column order and the
\* tables around it; tables without rows or without header cells in the first
\* row are skipped; it returns not-found when no table covers all fragments.
C5_FirstQualifyingTable ==
    pc = "parse_classic" =>
        /\ LocatesFirst(classic_html, ClassicRequired)
        /\ LocatesFirst(prod_html, ProdRequired)

\* A page of three tables: the first covers a proper subset of the fragments,
\* the second qualifies with its columns in another order, the third has no
\* header cells; the second is returned
C5_Witness ==
    /\ pc = "parse_classic"
    /\ Len(classic_html) = 3
    /\ ~Qualifies(classic_html[1], ClassicRequired)
    /\ Covers(classic_html[1], ClassicRequired[1])
    /\ Qualifies(classic_html[2], ClassicRequired)
    /\ idx_contains(HeaderLabels(classic_html[2][1].th), KeyEndpoint) = 2
    /\ classic_html[3] # <<>>
    /\ classic_html[3][1].th = <<>>
    /\ find_best_table(classic_html, ClassicRequired).at = 2

\* a < b by code point, a proper prefix first
LexLess(a, b) ==
    \E k \in 1..Len(b) :
        /\ Len(a) >= k - 1
        /\ SubSeq(a, 1, k - 1) = SubSeq(b, 1, k - 1)
        /\ Len(a) = k - 1 \/ Ord[a[k]] < Ord[b[k]]

\* The maximal comma-free pieces of s
CommaPieces(s) ==
    {SubSeq(s, i, j) : <<i, j>> \in
        {ij \in (1..(Len(s) + 1)) \X (0..Len(s)) :
            /\ ij[1] <= ij[2] + 1
            /\ \A x \in ij[1]..ij[2] : s[x] # ","
            /\ ij[1] = 1 \/ s[ij[1] - 1] = ","
            /\ ij[2] = Len(s) \/ s[ij[2] + 1] = ","}}

\* The non-blank trimmed comma-separated privilege strings of a row text
PrivilegeStrings(s) == {Strip(piece) : piece \in CommaPieces(s)} \ {<<>>}

ClassicPrivilegeStrings ==
    UNION {PrivilegeStrings(classic_rows[k].required_privileges) : k \in 1..Len(classic_rows)}

ProdPrivilegeStrings ==
    UNION {PrivilegeStrings(prod_rows[k].privilege_requirements) : k \in 1..Len(prod_rows)}

\* C6: all_privileges is strictly ascending and its elements are exactly the
\* non-blank, trimmed, comma-separated privilege strings of the classic and
\* pro rows.
C6_AllPrivilegesSortedUnion ==
    pc = "write_schema" =>
        LET all == schema.all_privileges
        IN  /\ \A i, j \in 1..Len(all) : i < j => LexLess(all[i], all[j])
            /\ Range(all) = ClassicPrivilegeStrings \cup ProdPrivilegeStrings

\* build_schema has run on rows where some privileges come from the classic
\* rows only and some from the pro rows only
C6_Witness ==
    /\ pc = "write_schema"
    /\ Len(schema.all_privileges) >= 4
    /\ ClassicPrivilegeStrings \ ProdPrivilegeStrings # {}
    /\ ProdPrivilegeStrings \ ClassicPrivilegeStrings # {}
    /\ ClassicPrivilegeStrings \cap ProdPrivilegeStrings # {}

\* The position of the first " - " in a privilege that contains one
SeparatorAt(p) ==
    Min({i \in 1..(Len(p) - 2) : SubSeq(p, i, i + 2) = Separator})

HasSeparator(p) == \E i \in 1..(Len(p) - 2) : SubSeq(p, i, i + 2) = Separator

ActionOf(p) == IF HasSeparator(p) THEN SubSeq(p, 1, SeparatorAt(p) - 1) ELSE Other

ResourceOf(p) == IF HasSeparator(p) THEN SubSeq(p, SeparatorAt(p) + 3, Len(p)) ELSE p

C8_ProjectionsAgree ==
    pc = "done" =>
        LET full == disk.files["jamf-roles.json"].doc
            classic == disk.files["classic-api-roles.json"].doc
            pro == disk.files["jamf-pro-api-roles.json"].doc
            cats == disk.files["privilege-categories.json"].doc
        IN  /\ \A f \in FileNames : disk.files[f].exists
            /\ full = schema
            /\ classic.version = full.version
            /\ classic.last_updated = full.last_updated
            /\ classic.endpoints = full.classic_api.endpoints
            /\ pro.version = full.version
            /\ pro.last_updated = full.last_updated
            /\ pro.endpoints = full.jamf_pro_api.endpoints
            /\ cats.version = full.version
            /\ cats.categories = full.privilege_categories
            /\ cats.all_privileges = full.all_privileges

\* A finished run whose classic and pro endpoint lists are non-empty and differ
C8_Witness ==
    /\ pc = "done"
    /\ schema.classic_api.endpoints # <<>>
    /\ schema.jamf_pro_api.endpoints # <<>>
    /\ schema.classic_api.endpoints # schema.jamf_pro_api.endpoints
    /\ schema.all_privileges # <<>>

ThreeFields == {"endpoint", "operation", "privileges"}
FourFields == {"endpoint", "operation", "privileges", "deprecation_date"}

\* C9 as claimed: every record of classic_api.endpoints has exactly the fields
\* endpoint, operation and privileges, and every record of
\* jamf_pro_api.endpoints those three plus deprecation_date.
C9_ClassicRecordsHaveThreeFields ==
    pc = "done" =>
        /\ \A n \in 1..Len(schema.classic_api.endpoints) :
               DOMAIN schema.classic_api.endpoints[n] = ThreeFields
        /\ \A n \in 1..Len(schema.jamf_pro_api.endpoints) :
               DOMAIN schema.jamf_pro_api.endpoints[n] = FourFields

\* C9 as amended: every record of classic_api.endpoints, and so of
\* classic-api-roles.json, has the fields endpoint, operation, privileges and
\* deprecation_date, the last always null; every record of
\* jamf_pro_api.endpoints has the same four fields, deprecation_date being
\* null or a string.
C9_RecordShape ==
    pc = "done" =>
        /\ \A n \in 1..Len(schema.classic_api.endpoints) :
               /\ DOMAIN schema.classic_api.endpoints[n] = FourFields
               /\ schema.classic_api.endpoints[n].deprecation_date = None
        /\ disk.files["classic-api-roles.json"].doc.endpoints = schema.classic_api.endpoints
        /\ \A n \in 1..Len(schema.jamf_pro_api.endpoints) :
               DOMAIN schema.jamf_pro_api.endpoints[n] = FourFields

\* A finished run with classic records and a deprecated pro record
C9_Witness ==
    /\ pc = "done"
    /\ schema.classic_api.endpoints # <<>>
    /\ \E n \in 1..Len(schema.jamf_pro_api.endpoints) :
           schema.jamf_pro_api.endpoints[n].deprecation_date # None

\* C10: whenever find_best_table returns a table to parse_classic or
\* parse_prod, every required field resolves to a column, the privileges
\* column's label contains the whole fragment that qualified the table, and
\* the deprecation column's label contains "deprecation date".
C10_LocatorResolverAgree ==
    pc = "parse_classic" =>
        /\ LET found == find_best_table(classic_html, ClassicRequired)
               lay == ClassicLayout(classic_html)
           IN  found.found =>
                   /\ Min({lay.i_endpoint, lay.i_operation, lay.i_priv}) >= 0
                   /\ Contains(Lower(ClassicRequired[3]), found.headers[lay.i_priv + 1])
        /\ LET found == find_best_table(prod_html, ProdRequired)
               lay == ProdLayout(prod_html)
           IN  found.found =>
                   /\ Min({lay.i_endpoint, lay.i_operation, lay.i_priv, lay.i_depr}) >= 0
                   /\ Contains(Lower(ProdRequired[3]), found.headers[lay.i_priv + 1])
                   /\ Contains(Lower(ProdRequired[4]), found.headers[lay.i_depr + 1])

=============================================================================
